---- MODULE Spec2Model ----
(***************************************************************************)
(* test-files/test-python.py, read as what it is to the Python             *)
(* interpreter: a module whose top-level statements run in line order.     *)
(* The statement table below is the file, line by line; RunLine and        *)
(* Unwind are the interpreter's statement execution and exception          *)
(* propagation applied to that table.                                      *)
(***************************************************************************)
EXTENDS Integers, Sequences, FiniteSets, TLC

VARIABLES pc, status, bound, exc, excLine, handlers, effects, executed,
          caught, response, installed, environ

vars == <<pc, status, bound, exc, excLine, handlers, effects, executed,
          caught, response, installed, environ>>

\* ---------------------------------------------------------------- bounds
\* Number of distinct response objects the remote server may answer with.
MaxResponses == 12

\* ---------------------------------------------------------- the program
LastLine == 41

\* Names every Python module namespace resolves without a binding.
BuiltinsWithHttp == {"print", "Exception", "ValueError", "http"}
Builtins == {"print", "Exception", "ValueError"}

\* Modules the two import statements ask for.
Importable == {"requests", "json"}

\* Exceptions requests.get raises instead of returning.
NetErrors == {"ConnectionError", "Timeout", "TooManyRedirects"}

S(kind, target, reads, effect, indent) ==
  [kind |-> kind, target |-> target, reads |-> reads,
   effect |-> effect, indent |-> indent]

\* One entry per line of the file.  reads lists the names the statement
\* loads, in evaluation order; effect is what its call does once every
\* name resolved; indent is the block depth.
Stmt(l) ==
  CASE l = 1  -> S("import", "requests", <<>>, "none", 0)
    [] l = 2  -> S("import", "json", <<>>, "none", 0)
    [] l = 5  -> S("assign", "response", <<"requests">>, "network", 0)
    [] l = 6  -> S("assign", "fetch_data", <<"http">>, "network", 0)
    [] l = 9  -> S("expr", "", <<"print">>, "stdout", 0)
    [] l = 10 -> S("expr", "", <<"console">>, "stdout", 0)
    [] l = 11 -> S("expr", "", <<"debugger">>, "none", 0)
    [] l = 20 -> S("assign", "user", <<"User">>, "database", 0)
    [] l = 21 -> S("assign", "query", <<>>, "none", 0)
    [] l = 22 -> S("expr", "", <<"User">>, "database", 0)
    [] l = 23 -> S("expr", "", <<"users">>, "database", 0)
    [] l = 26 -> S("try", "", <<>>, "none", 0)
    [] l = 27 -> S("expr", "", <<"risky_operation">>, "none", 1)
    [] l = 28 -> S("except", "e", <<"Exception">>, "none", 0)
    [] l = 29 -> S("expr", "", <<"print", "e">>, "stdout", 1)
    [] l = 30 -> S("raise", "", <<"ValueError">>, "none", 1)
    [] l = 33 -> S("assign", "token", <<"generate_jwt_token", "user_id">>, "none", 0)
    [] l = 34 -> S("if", "", <<"user">>, "none", 0)
    [] l = 35 -> S("expr", "", <<"login_user", "user">>, "none", 1)
    [] l = 36 -> S("assign", "password_hash", <<"hash_password", "password">>, "none", 0)
    [] l = 39 -> S("assign", "api_key", <<"os">>, "none", 0)
    [] l = 40 -> S("assign", "config", <<"load_config_file">>, "none", 0)
    [] l = 41 -> S("assign", "settings", <<"get_app_settings">>, "none", 0)
    [] OTHER  -> S("blank", "", <<>>, "none", 0)

Least(T) == IF T = {} THEN 0 ELSE CHOOSE m \in T : \A k \in T : m <= k

\* The next statement in the file after line l (0: end of file).
NextStmt(l) == Least({m \in (l + 1)..LastLine : Stmt(m).kind # "blank"})

\* The first statement after the block that line l opens.
SkipBlock(l) ==
  Least({m \in (l + 1)..LastLine :
           Stmt(m).kind # "blank" /\ Stmt(m).indent <= Stmt(l).indent})

\* Where control goes when the statement at l completes normally: a try
\* body that runs off its end steps over the except clause.
After(l) ==
  LET m == NextStmt(l)
  IN IF m # 0 /\ Stmt(m).kind = "except" THEN SkipBlock(m) ELSE m

LeavesTry(l) == NextStmt(l) # 0 /\ Stmt(NextStmt(l)).kind = "except"

\* LOAD_NAME: module globals, then builtins.
LookupLenient(n, b) == TRUE
Lookup(n, b) == n \in b \cup Builtins

\* The first name of the statement that does not resolve ("" if all do).
FirstUnbound(s, b) ==
  LET bad == {i \in 1..Len(s.reads) : ~Lookup(s.reads[i], b)}
  IN IF bad = {} THEN "" ELSE s.reads[Least(bad)]

\* What the statement's call may do once it is made: r > 0 is a returned
\* response object, err a raised exception.
Outcomes(s) ==
  IF s.effect = "network"
  THEN {[r |-> v, err |-> "none"] : v \in 1..MaxResponses}
         \cup {[r |-> 0, err |-> e] : e \in NetErrors}
  ELSE {[r |-> 0, err |-> "none"]}

\* The externally visible action a statement performs when its call is made.
EffectOf(s, l) ==
  IF s.effect = "none" THEN <<>> ELSE <<[kind |-> s.effect, line |-> l]>>

Init ==
  /\ pc = 1
  /\ status = "running"
  /\ bound = {}
  /\ exc = "none"
  /\ excLine = 0
  /\ handlers = <<>>
  /\ effects = <<>>
  /\ executed = {}
  /\ caught = {}
  /\ response = 0
  /\ installed \in SUBSET Importable
  /\ environ \in SUBSET {"API_KEY"}

Raise(e) ==
  /\ exc' = e
  /\ excLine' = pc
  /\ UNCHANGED <<pc, status, bound, handlers, effects, response>>

Goto(next, popTry) ==
  /\ pc' = next
  /\ status' = IF next = 0 THEN "ok" ELSE "running"
  /\ handlers' = IF popTry /\ handlers # <<>> THEN Tail(handlers) ELSE handlers
  /\ UNCHANGED <<exc, excLine>>

\* The interpreter executes the statement at pc.
RunLine ==
  /\ status = "running"
  /\ exc = "none"
  /\ executed' = executed \cup {pc}
  /\ UNCHANGED <<caught, installed, environ>>
  /\ LET s == Stmt(pc)
         u == FirstUnbound(s, bound)
     IN \E o \in Outcomes(s), branch \in BOOLEAN :
          CASE s.kind = "import" ->
                 IF s.target \in installed
                 THEN /\ bound' = bound \cup {s.target}
                      /\ Goto(After(pc), LeavesTry(pc))
                      /\ UNCHANGED <<effects, response>>
                 ELSE Raise("ModuleNotFoundError")
            [] s.kind = "try" ->
                 /\ pc' = NextStmt(pc)
                 /\ handlers' = <<SkipBlock(pc)>> \o handlers
                 /\ UNCHANGED <<status, bound, exc, excLine, effects, response>>
            [] s.kind = "raise" ->
                 IF u # "" THEN Raise("NameError") ELSE Raise(s.reads[1])
            [] s.kind = "if" ->
                 IF u # ""
                 THEN Raise("NameError")
                 ELSE /\ Goto(IF branch THEN NextStmt(pc) ELSE SkipBlock(pc), FALSE)
                      /\ UNCHANGED <<bound, effects, response>>
            [] OTHER ->
                 IF u # ""
                 THEN Raise("NameError")
                 ELSE /\ effects' = effects \o EffectOf(s, pc)
                      /\ IF o.err # "none"
                         THEN /\ exc' = o.err
                              /\ excLine' = pc
                              /\ UNCHANGED <<pc, status, bound, handlers, response>>
                         ELSE /\ bound' = IF s.kind = "assign"
                                          THEN bound \cup {s.target} ELSE bound
                              /\ response' = IF s.target = "response" THEN o.r ELSE response
                              /\ Goto(After(pc), LeavesTry(pc))

\* A raised exception propagates: the innermost enclosing except clause
\* takes it, otherwise the interpreter prints the traceback and exits.
Unwind ==
  /\ status = "running"
  /\ exc # "none"
  /\ UNCHANGED <<effects, response, installed, environ>>
  /\ IF handlers # <<>>
     THEN LET h == Head(handlers)
          IN /\ pc' = NextStmt(h)
             /\ bound' = bound \cup {Stmt(h).target}
             /\ handlers' = Tail(handlers)
             /\ caught' = caught \cup {exc}
             /\ executed' = executed \cup {h}
             /\ exc' = "none"
             /\ UNCHANGED <<status, excLine>>
     ELSE /\ status' = "error"
          /\ UNCHANGED <<pc, bound, exc, excLine, handlers, caught, executed>>

Next == RunLine \/ Unwind

Spec == Init /\ [][Next]_vars

\* The interpreter is one thread that keeps executing until the script ends.
FairSpec == Spec /\ WF_vars(Next)

TypeOK ==
  /\ pc \in 0..LastLine
  /\ status \in {"running", "ok", "error"}
  /\ executed \subseteq 1..LastLine
  /\ response \in 0..MaxResponses

\* ------------------------------------------------------------ properties

C10_Safe ==
  /\ executed \subseteq 1..6
  /\ caught = {}
  /\ handlers = <<>>
  /\ bound \cap {"user", "token", "api_key", "config", "settings"} = {}
  /\ status # "ok"
  /\ (status = "error" /\ "response" \in bound)
       => (pc = 6 /\ exc = "NameError" /\ excLine = 6)

C10_HaltsAtLine6 ==
  /\ []C10_Safe
  /\ ("response" \in bound)
       ~> (status = "error" /\ exc = "NameError" /\ excLine = 6)

C10_NameErrorAtLine6 ==
  /\ status = "error"
  /\ exc = "NameError"
  /\ excLine = 6
  /\ {"requests", "json", "response"} \subseteq bound
  /\ response > 0
====
